---- MODULE Spec2Model ----
(***************************************************************************)
(* Prerequisite-condition parser and evaluator of hard.py.                 *)
(*                                                                         *)
(* A Python str is modelled as a sequence of one-character strings, so     *)
(* that strip, isnumeric, lower, the regular expressions and the scan of   *)
(* parse_groups work character by character as the code does.  The only    *)
(* whitespace character of the modelled alphabet is the space.             *)
(***************************************************************************)
EXTENDS Integers, Sequences, FiniteSets, TLC

VARIABLES
    text,            \* the condition string handed to parse_condition
    pc,              \* position of the run
    calls,           \* pending parse_condition calls (the recursion, as a stack)
    pg,              \* what the latest parse_groups call computed
    tree,            \* what parse_condition(text) returned
    raw_conditions,  \* conditions.json: course -> condition text
    CONDITIONS,      \* course -> parsed condition
    node,            \* a Condition object under evaluation
    courses_list,    \* the courses a student has taken
    target,          \* target_course of the latest is_unlocked call
    result           \* what the latest satisfied / is_unlocked call returned

vars == <<text, pc, calls, pg, tree, raw_conditions, CONDITIONS, node,
          courses_list, target, result>>

----------------------------------------------------------------------------
(* Bounds *)

MaxPieces == 3       \* pieces concatenated into one condition text
MaxCompleted == 2    \* length of a courses_list
MaxChildren == 2     \* subconditions of a Conjunction / Union under evaluation
MaxCredits == 12     \* largest num_credits of a UOC under evaluation

----------------------------------------------------------------------------
(* Characters and str methods *)

Upper == <<"A","B","C","D","E","F","G","H","I","J","K","L","M",
           "N","O","P","Q","R","S","T","U","V","W","X","Y","Z">>
Lower == <<"a","b","c","d","e","f","g","h","i","j","k","l","m",
           "n","o","p","q","r","s","t","u","v","w","x","y","z">>

\* [a-zA-Z]
Letters == {Upper[i] : i \in 1..26} \cup {Lower[i] : i \in 1..26}
\* \d and the characters str.isnumeric accepts
Digits == {"0","1","2","3","4","5","6","7","8","9"}

SetMin(S) == CHOOSE x \in S : \A y \in S : x <= y
SetMax(S) == CHOOSE x \in S : \A y \in S : x >= y

lower_char(ch) ==
    IF \E i \in 1..26 : Upper[i] = ch
    THEN Lower[CHOOSE i \in 1..26 : Upper[i] = ch]
    ELSE ch

\* str.lower
lower(s) == [i \in 1..Len(s) |-> lower_char(s[i])]

\* str.strip
strip(s) ==
    LET keep == {i \in 1..Len(s) : s[i] # " "}
    IN  IF keep = {} THEN <<>> ELSE SubSeq(s, SetMin(keep), SetMax(keep))

isnumeric_prefix(s) == s # <<>> /\ s[1] \in Digits
\* str.isnumeric
isnumeric(s) == s # <<>> /\ \A i \in 1..Len(s) : s[i] \in Digits

\* sub in s
Contains(sub, s) ==
    \E i \in 0..(Len(s) - Len(sub)) : SubSeq(s, i + 1, i + Len(sub)) = sub

\* str.startswith
startswith(s, prefix) ==
    Len(prefix) <= Len(s) /\ SubSeq(s, 1, Len(prefix)) = prefix

\* re.match(r'[a-zA-Z]{4}\d{4}$', condition)
re_match_course(s) ==
    /\ Len(s) = 8
    /\ \A i \in 1..4 : s[i] \in Letters
    /\ \A i \in 5..8 : s[i] \in Digits

\* re.search(r'.*([a-zA-Z]{4}\d{4})$', ''.join(group))
re_search_course(s) ==
    /\ Len(s) >= 8
    /\ re_match_course(SubSeq(s, Len(s) - 7, Len(s)))

\* match[1] of that search
match1(s) == SubSeq(s, Len(s) - 7, Len(s))

----------------------------------------------------------------------------
(* Condition objects *)

None == [kind |-> "None"]
Verum == [kind |-> "Verum"]
SingleCourse(name) == [kind |-> "SingleCourse", name |-> name]
Conjunction(subconditions) ==
    [kind |-> "Conjunction", subconditions |-> subconditions]
Union(subconditions) == [kind |-> "Union", subconditions |-> subconditions]
UOC(num_credits, prefix, courses) ==
    [kind |-> "UOC", num_credits |-> num_credits, prefix |-> prefix,
     courses |-> courses]

\* prefix of a UOC that has none
NoPrefix == <<"None">>

----------------------------------------------------------------------------
(* parse_groups *)

kw_or == <<"o","r">>
kw_and == <<"a","n","d">>

endgroup_first_wins(st) ==
    LET joined == st.group
        low == lower(joined)
    IN  [st EXCEPT
            !.type = IF @ # "None" THEN @
                     ELSE IF Contains(kw_or, low) THEN "Union"
                     ELSE IF Contains(kw_and, low) THEN "Conjunction"
                     ELSE @,
            !.group = <<>>,
            !.flushes = Append(@, joined)]

\* endgroup(): classifies the buffered text and clears the buffer.
\* flushes records the text each call looked at.
endgroup(st) ==
    LET joined == st.group
        low == lower(joined)
    IN  [st EXCEPT
            !.type = IF Contains(kw_or, low) THEN "Union"
                     ELSE IF Contains(kw_and, low) THEN "Conjunction"
                     ELSE @,
            !.group = <<>>,
            !.flushes = Append(@, joined)]

\* one iteration of 'for char in condition'
parse_groups_char(st, char) ==
    IF st.brackets = 0 /\ st.group # <<>> /\ char = "("
    THEN [endgroup([st EXCEPT !.groups = Append(@, st.group)])
            EXCEPT !.brackets = 1]
    ELSE IF st.brackets = 1 /\ char = ")"
    THEN [st EXCEPT !.groups = Append(@, st.group),
                    !.group = <<>>,
                    !.brackets = 0]
    ELSE LET st1 == [st EXCEPT !.group = Append(@, char)]
         IN  IF char = "(" THEN [st1 EXCEPT !.brackets = @ + 1]
             ELSE IF char = ")" THEN [st1 EXCEPT !.brackets = @ - 1]
             ELSE IF st.brackets = 0 /\ re_search_course(st1.group)
             THEN endgroup([st1 EXCEPT !.groups = Append(@, match1(st1.group))])
             ELSE st1

\* 'for char in condition' over the characters lo..hi, in order.  The range
\* is halved, and the state after the first half is computed (as the one
\* element of a set) before the second half is entered, so that the
\* evaluation does not nest once per character.
RECURSIVE parse_groups_loop(_, _, _, _)
parse_groups_loop(condition, lo, hi, st) ==
    IF lo > hi THEN st
    ELSE IF lo = hi THEN parse_groups_char(st, condition[lo])
    ELSE CHOOSE after \in
            {parse_groups_loop(condition, (lo + hi) \div 2 + 1, hi, half) :
               half \in {parse_groups_loop(condition, lo, (lo + hi) \div 2, st)}} :
            TRUE

\* parse_groups(condition): groups and type are the returned pair
parse_groups(condition) ==
    LET st0 == [groups |-> <<>>, group |-> <<>>, brackets |-> 0,
                type |-> "None", flushes |-> <<>>]
        st == parse_groups_loop(condition, 1, Len(condition), st0)
    IN  IF st.group # <<>>
        THEN endgroup([st EXCEPT !.groups = Append(@, st.group)])
        ELSE st

----------------------------------------------------------------------------
(* parse_condition *)

COMP == <<"C","O","M","P">>

\* the conditions parse_condition answers without splitting
is_leaf(c) == c = <<>> \/ isnumeric(c) \/ re_match_course(c)

leaf(c) ==
    IF c = <<>> THEN Verum
    ELSE IF isnumeric(c) THEN SingleCourse(COMP \o c)
    ELSE SingleCourse(c)

undecomposed_off_by_one(groups) == Len(groups) = 0
\* len(groups) == 1
undecomposed(groups) == Len(groups) = 1

\* filter(None, ...): every Condition object is truthy, None is not
filter_None(seq) == SelectSeq(seq, LAMBDA x : x # None)

\* type_of_condition(subconditions)
construct(type, subconditions) ==
    IF type = "Union" THEN Union(subconditions)
    ELSE Conjunction(subconditions)

RECURSIVE parse_condition(_)

\* the rest of parse_condition once parse_groups has returned g
split(g) ==
    IF undecomposed(g.groups) THEN None
    ELSE IF g.type # "None"
    THEN construct(g.type,
           filter_None([i \in 1..Len(g.groups) |->
                           parse_condition(g.groups[i])]))
    ELSE None

parse_condition(condition) ==
    LET c == strip(condition)
    IN  IF is_leaf(c) THEN leaf(c) ELSE split(parse_groups(c))

----------------------------------------------------------------------------
(* satisfied *)

Range(seq) == {seq[i] : i \in 1..Len(seq)}

counts_only_constrained(n, course) ==
    \/ (n.courses # <<>> /\ course \in Range(n.courses))
    \/ (n.prefix = NoPrefix /\ n.courses = <<>>)
    \/ (n.prefix # NoPrefix /\ startswith(course, n.prefix))

\* the test of UOC.satisfied's loop body
counts(n, course) ==
    \/ (n.courses # <<>> /\ course \in Range(n.courses))
    \/ n.prefix = NoPrefix
    \/ startswith(course, n.prefix)

\* credits_done after the first i courses of the loop
RECURSIVE credits_done(_, _, _)
credits_done(n, cl, i) ==
    IF i = 0 THEN 0
    ELSE credits_done(n, cl, i - 1) + (IF counts(n, cl[i]) THEN 6 ELSE 0)

UOC_satisfied_exact(n, cl) == credits_done(n, cl, Len(cl)) = n.num_credits
\* UOC.satisfied
UOC_satisfied(n, cl) == credits_done(n, cl, Len(cl)) >= n.num_credits

\* Condition.satisfied, dispatched on the class of the object
RECURSIVE satisfied(_, _)
satisfied(n, cl) ==
    CASE n.kind = "Conjunction" ->
            \A i \in 1..Len(n.subconditions) : satisfied(n.subconditions[i], cl)
      [] n.kind = "Union" ->
            \E i \in 1..Len(n.subconditions) : satisfied(n.subconditions[i], cl)
      [] n.kind = "SingleCourse" -> n.name \in Range(cl)
      [] n.kind = "UOC" -> UOC_satisfied(n, cl)
      [] n.kind = "Verum" -> TRUE

\* how a returned bool is recorded in result
Bool(b) == IF b THEN "True" ELSE "False"

----------------------------------------------------------------------------
(* Inputs *)

COMP1511 == <<"C","O","M","P","1","5","1","1">>
COMP1521 == <<"C","O","M","P","1","5","2","1">>
COMP2521 == <<"C","O","M","P","2","5","2","1">>
CORE1234 == <<"C","O","R","E","1","2","3","4">>
MATH1131 == <<"M","A","T","H","1","1","3","1">>
Num12 == <<"1","2">>
SepAnd == <<" ","a","n","d"," ">>
SepOr == <<" ","o","r"," ">>
Group == <<"(">> \o COMP1521 \o SepOr \o COMP2521 \o <<")">>

\* a piece of condition text: an operand, possibly after a connective, or
\* a lone parenthesis
Pieces ==
    {j \o o : j \in {<<>>, SepAnd, SepOr},
              o \in {COMP1511, CORE1234, Num12, Group}}
    \cup {<<"(">>, <<")">>}

RECURSIVE Texts(_)
Texts(n) ==
    IF n = 0 THEN {<<>>}
    ELSE LET shorter == Texts(n - 1)
         IN  shorter \cup {t \o p : t \in shorter, p \in Pieces}

TextInputs == Texts(MaxPieces)

RECURSIVE Lists(_, _)
Lists(S, n) ==
    IF n = 0 THEN {<<>>}
    ELSE LET shorter == Lists(S, n - 1)
         IN  shorter \cup {Append(l, c) : l \in shorter, c \in S}

pg0 == [groups |-> <<>>, group |-> <<>>, brackets |-> 0,
        type |-> "None", flushes |-> <<>>]

----------------------------------------------------------------------------
(* Spec: parse_condition(text), its recursion unfolded call by call *)

Init ==
    /\ text \in TextInputs
    /\ pc = "start"
    /\ calls = <<[condition |-> text, depth |-> 0, parent |-> text]>>
    /\ pg = pg0
    /\ tree = None
    /\ raw_conditions = <<>>
    /\ CONDITIONS = <<>>
    /\ node = None
    /\ courses_list = <<>>
    /\ target = <<>>
    /\ result = "unset"

\* the body of one parse_condition call: the call on top of the stack
\* answers at once or makes one recursive call per group
ParseCall ==
    /\ pc \in {"start", "parsing"}
    /\ calls # <<>>
    /\ LET call == Head(calls)
           c == strip(call.condition)
       IN  IF is_leaf(c)
           THEN /\ calls' = Tail(calls)
                /\ pg' = pg
           ELSE \E g \in {parse_groups(c)} :
                    /\ pg' = g
                    /\ IF undecomposed(g.groups) \/ g.type = "None"
                       THEN calls' = Tail(calls)
                       ELSE calls' =
                              [i \in 1..Len(g.groups) |->
                                 [condition |-> g.groups[i],
                                  depth |-> call.depth + 1,
                                  parent |-> c]] \o Tail(calls)
    /\ pc' = "parsing"
    /\ UNCHANGED <<text, tree, raw_conditions, CONDITIONS, node,
                   courses_list, target, result>>

\* the outermost call returns
Return ==
    /\ pc = "parsing"
    /\ calls = <<>>
    /\ tree' = parse_condition(text)
    /\ pc' = "parsed"
    /\ UNCHANGED <<text, calls, pg, raw_conditions, CONDITIONS, node,
                   courses_list, target, result>>

Next == ParseCall \/ Return

Spec == Init /\ [][Next]_vars

----------------------------------------------------------------------------
(* SpecStore: the module-level load of CONDITIONS, then is_unlocked calls *)

StoreKeys == {COMP1521, COMP2521}

StoreTexts ==
    { <<>>,
      COMP1511,
      COMP1511 \o SepAnd \o Group,
      Group \o SepAnd \o COMP1511,
      COMP1511 \o SepAnd \o Num12,
      Num12 \o SepOr \o Num12 }

Taken == {COMP1511, COMP1521}

InitStore ==
    /\ raw_conditions \in [StoreKeys -> StoreTexts]
    /\ CONDITIONS = <<>>
    /\ pc = "import"
    /\ text = <<>>
    /\ calls = <<>>
    /\ pg = pg0
    /\ tree = None
    /\ node = None
    /\ courses_list = <<>>
    /\ target = <<>>
    /\ result = "unset"

\* CONDITIONS = {course: parse_condition(condition) for ...}
Load ==
    /\ pc = "import"
    /\ CONDITIONS' = [course \in DOMAIN raw_conditions |->
                        parse_condition(raw_conditions[course])]
    /\ pc' = "loaded"
    /\ UNCHANGED <<text, calls, pg, tree, raw_conditions, node,
                   courses_list, target, result>>

is_unlocked_caching(cl, target_course) ==
    /\ pc = "loaded"
    /\ target_course \in DOMAIN CONDITIONS
    /\ courses_list' = cl
    /\ target' = target_course
    /\ result' = IF CONDITIONS[target_course] = None
                 THEN "AttributeError"
                 ELSE Bool(satisfied(CONDITIONS[target_course], cl))
    /\ CONDITIONS' = [CONDITIONS EXCEPT ![target_course] =
                         IF result' = "True" THEN Verum ELSE @]
    /\ UNCHANGED <<text, pc, calls, pg, tree, raw_conditions, node>>

\* is_unlocked(courses_list, target_course); None has no satisfied method
is_unlocked(cl, target_course) ==
    /\ pc = "loaded"
    /\ target_course \in DOMAIN CONDITIONS
    /\ courses_list' = cl
    /\ target' = target_course
    /\ result' = IF CONDITIONS[target_course] = None
                 THEN "AttributeError"
                 ELSE Bool(satisfied(CONDITIONS[target_course], cl))
    /\ UNCHANGED <<text, pc, calls, pg, tree, raw_conditions, CONDITIONS,
                   node>>

Query ==
    \E cl \in Lists(Taken, MaxCompleted), t \in StoreKeys : is_unlocked(cl, t)

NextStore == Load \/ Query

SpecStore == InitStore /\ [][NextStore]_vars

----------------------------------------------------------------------------
(* SpecEval: satisfied on Condition objects, while courses are added *)

EvalCourses == {COMP1511, MATH1131}

EvalLeaves ==
    {SingleCourse(COMP1511), Verum}
    \cup {UOC(n, p, cs) : n \in {0, 6, MaxCredits},
                          p \in {NoPrefix, COMP},
                          cs \in {<<>>, <<MATH1131>>}}

EvalNodes ==
    EvalLeaves
    \cup {Conjunction(subs) :
            subs \in Lists(EvalLeaves \cup {Conjunction(<<>>), Union(<<>>)},
                           MaxChildren)}
    \cup {Union(subs) :
            subs \in Lists(EvalLeaves \cup {Conjunction(<<>>), Union(<<>>)},
                           MaxChildren)}

InitEval ==
    /\ node \in EvalNodes
    /\ courses_list = <<>>
    /\ pc = "eval"
    /\ result = "unset"
    /\ text = <<>>
    /\ calls = <<>>
    /\ pg = pg0
    /\ tree = None
    /\ raw_conditions = <<>>
    /\ CONDITIONS = <<>>
    /\ target = <<>>

\* the student completes one more course
TakeCourse ==
    /\ pc = "eval"
    /\ Len(courses_list) < MaxCompleted
    /\ \E c \in EvalCourses, i \in 0..Len(courses_list) :
          courses_list' = SubSeq(courses_list, 1, i) \o <<c>>
                          \o SubSeq(courses_list, i + 1, Len(courses_list))
    /\ result' = "unset"
    /\ UNCHANGED <<text, pc, calls, pg, tree, raw_conditions, CONDITIONS,
                   node, target>>

\* node.satisfied(courses_list)
Evaluate ==
    /\ pc = "eval"
    /\ result' = Bool(satisfied(node, courses_list))
    /\ UNCHANGED <<text, pc, calls, pg, tree, raw_conditions, CONDITIONS,
                   node, courses_list, target>>

NextEval == TakeCourse \/ Evaluate

SpecEval == InitEval /\ [][NextEval]_vars

----------------------------------------------------------------------------
(* Vocabulary of the properties *)

\* number of unclosed "(" after the first i characters of s
OpenAfter(s, i) ==
    Cardinality({j \in 1..i : s[j] = "("})
    - Cardinality({j \in 1..i : s[j] = ")"})

\* the characters lo..hi of s scanned left to right: open is the number of
\* unclosed "(" so far, max the largest value it has had
RECURSIVE NestingScan(_, _, _, _)
NestingScan(s, lo, hi, acc) ==
    IF lo > hi THEN acc
    ELSE IF lo = hi
    THEN IF s[lo] = "("
         THEN [open |-> acc.open + 1,
               max |-> IF acc.open + 1 > acc.max THEN acc.open + 1 ELSE acc.max]
         ELSE IF s[lo] = ")" THEN [acc EXCEPT !.open = @ - 1]
         ELSE acc
    ELSE CHOOSE after \in
            {NestingScan(s, (lo + hi) \div 2 + 1, hi, half) :
               half \in {NestingScan(s, lo, (lo + hi) \div 2, acc)}} :
            TRUE

\* maximum parenthesis nesting depth of s
Nesting(s) == NestingScan(s, 1, Len(s), [open |-> 0, max |-> 0]).max

Balanced(s) ==
    /\ OpenAfter(s, Len(s)) = 0
    /\ \A i \in 1..Len(s) : OpenAfter(s, i) >= 0

\* the contents of the top-level parenthesized regions of s, by position of
\* the opening parenthesis
TopLevelOpens(s) == {i \in 1..Len(s) : s[i] = "(" /\ OpenAfter(s, i) = 1}
ClosingOf(s, i) == SetMin({j \in (i + 1)..Len(s) : OpenAfter(s, j) = 0})
RegionContent(s, i) == SubSeq(s, i + 1, ClosingOf(s, i) - 1)

\* height of a returned tree: edges on the longest path from the root
RECURSIVE Height(_)
Height(t) ==
    IF t.kind \in {"Conjunction", "Union"}
    THEN 1 + SetMax({0} \cup {Height(t.subconditions[i]) :
                                i \in 1..Len(t.subconditions)})
    ELSE 0

\* the names of the SingleCourse nodes of a tree
RECURSIVE CourseNames(_)
CourseNames(t) ==
    IF t.kind = "SingleCourse" THEN {t.name}
    ELSE IF t.kind \in {"Conjunction", "Union"}
    THEN UNION {CourseNames(t.subconditions[i]) :
                  i \in 1..Len(t.subconditions)}
    ELSE {}

HasKeyword(s) == Contains(<<"o","r">>, lower(s)) \/ Contains(<<"a","n","d">>, lower(s))
KeywordType(s) ==
    IF Contains(<<"o","r">>, lower(s)) THEN "Union" ELSE "Conjunction"
KeywordFlushes(g) == {i \in 1..Len(g.flushes) : HasKeyword(g.flushes[i])}

CodesInTexts == {COMP1511, CORE1234}

----------------------------------------------------------------------------
(* C1 *)

\* C1: for all course codes X and Y, "X and Y" parses to the Conjunction of
\* exactly SingleCourse X, SingleCourse Y and "X or Y" to the Union of exactly
\* those two nodes, whatever the letters of X and Y.
C1_ConnectiveIgnoresCourseLetters ==
    pc = "parsed" =>
        \A X \in CodesInTexts, Y \in CodesInTexts :
            /\ text = X \o SepAnd \o Y =>
                 tree = Conjunction(<<SingleCourse(X), SingleCourse(Y)>>)
            /\ text = X \o SepOr \o Y =>
                 tree = Union(<<SingleCourse(X), SingleCourse(Y)>>)

----------------------------------------------------------------------------
(* C2 *)

\* C2: for a text with balanced parentheses parse_groups emits every
\* top-level parenthesized region as exactly one segment, the content between
\* its enclosing parentheses, wherever the region stands; so "A and (B or C)"
\* and "(B or C) and A" both parse to a Conjunction of SingleCourse A and
\* Union(B, C).
C2_TopLevelRegionIsOneSegment ==
    pc = "parsed" =>
        LET c == strip(text)
            BorC == Union(<<SingleCourse(COMP1521), SingleCourse(COMP2521)>>)
        IN  /\ (Balanced(c) /\ TopLevelOpens(c) # {}) =>
                  \A i \in TopLevelOpens(c) :
                     Cardinality({k \in 1..Len(parse_groups(c).groups) :
                                    parse_groups(c).groups[k] = RegionContent(c, i)})
                     = Cardinality({j \in TopLevelOpens(c) :
                                      RegionContent(c, j) = RegionContent(c, i)})
            /\ text \in {COMP1511 \o SepAnd \o Group, Group \o SepAnd \o COMP1511} =>
                  /\ tree.kind = "Conjunction"
                  /\ Len(tree.subconditions) = 2
                  /\ Range(tree.subconditions) = {SingleCourse(COMP1511), BorC}

----------------------------------------------------------------------------
(* C3 *)

\* the recursive parse of some segment of t returns None
SomeSegmentUnparseable(t) ==
    LET c == strip(t)
    IN  /\ ~is_leaf(c)
        /\ Len(parse_groups(c).groups) # 1
        /\ parse_groups(c).type # "None"
        /\ \E i \in 1..Len(parse_groups(c).groups) :
              parse_condition(parse_groups(c).groups[i]) = None

\* C3: when the recursive parse of a segment of a requirement returns None,
\* the entry stored in CONDITIONS for that course is None, never a
\* Conjunction / Union of the remaining segments.
C3_NoPartialTree ==
    pc = "loaded" =>
        \A course \in DOMAIN CONDITIONS :
            SomeSegmentUnparseable(raw_conditions[course]) =>
                CONDITIONS[course] = None

----------------------------------------------------------------------------
(* C4 *)

\* positions of courses_list whose course P says is counted
Counted(P(_), cl) == {i \in 1..Len(cl) : P(cl[i])}

UOCEvaluated == pc = "eval" /\ node.kind = "UOC" /\ result # "unset"

\* C4: UOC.satisfied is true iff 6 times the number of matching completed
\* courses is at least num_credits, where a course matches iff it is in the
\* explicit list, or starts with the prefix, or neither a list nor a prefix
\* constrains the node; with a non-empty list and no prefix only the listed
\* courses are counted.
C4_OnlyConstrainedCoursesCount ==
    UOCEvaluated =>
        LET Matches(course) ==
                \/ course \in Range(node.courses)
                \/ (node.prefix # NoPrefix /\ startswith(course, node.prefix))
                \/ (node.prefix = NoPrefix /\ node.courses = <<>>)
        IN  (result = "True") <=>
                (6 * Cardinality(Counted(Matches, courses_list))
                   >= node.num_credits)

\* C4 (amended): a course matches iff it is in the non-empty explicit list,
\* or the node has no prefix, or the course starts with the prefix; so with
\* no prefix every completed course is counted, also when the explicit list
\* is non-empty.
C4_NoPrefixCountsEveryCourse ==
    UOCEvaluated =>
        LET Matches(course) ==
                \/ course \in Range(node.courses)
                \/ node.prefix = NoPrefix
                \/ (node.prefix # NoPrefix /\ startswith(course, node.prefix))
        IN  /\ (result = "True") <=>
                  (6 * Cardinality(Counted(Matches, courses_list))
                     >= node.num_credits)
            /\ node.prefix = NoPrefix =>
                  ((result = "True") <=>
                      (6 * Len(courses_list) >= node.num_credits))

\* a UOC with an explicit list and no prefix is satisfied by courses that
\* are not in its list
C4_Witness ==
    /\ UOCEvaluated
    /\ node.prefix = NoPrefix
    /\ node.courses # <<>>
    /\ node.num_credits > 0
    /\ Range(courses_list) \cap Range(node.courses) = {}
    /\ result = "True"

----------------------------------------------------------------------------
(* C5 *)

----------------------------------------------------------------------------
(* C6 *)

\* C6: once CONDITIONS is loaded, an is_unlocked call leaves the mapping
\* (its keys and every node of every stored tree) as it was, and a call
\* repeated with the same arguments returns the same result.
C6_QueriesLeaveConditionsUnchanged ==
    [][pc = "loaded" =>
         /\ CONDITIONS' = CONDITIONS
         /\ DOMAIN CONDITIONS' = DOMAIN raw_conditions
         /\ (result # "unset" /\ courses_list' = courses_list
               /\ target' = target) => result' = result]_vars

\* a query was answered from a stored Conjunction
C6_Witness ==
    /\ pc = "loaded"
    /\ result = "True"
    /\ courses_list # <<>>
    /\ target \in DOMAIN CONDITIONS
    /\ CONDITIONS[target].kind = "Conjunction"

----------------------------------------------------------------------------
(* C7 *)

\* C7: every SingleCourse node of a tree parse_condition returns, for any
\* input including purely numeric text of any length, carries a code of
\* exactly 4 letters followed by exactly 4 digits.
C7_CourseCodesWellFormed ==
    pc = "parsed" =>
        \A name \in CourseNames(tree) :
            /\ Len(name) = 8
            /\ \A i \in 1..4 : name[i] \in Letters
            /\ \A i \in 5..8 : name[i] \in Digits

----------------------------------------------------------------------------
(* C8 *)

OrAndText == COMP1511 \o SepOr \o COMP1511 \o SepAnd \o COMP1511
AndOrText == COMP1511 \o SepAnd \o COMP1511 \o SepOr \o COMP1511

\* the type of call g is the one of its first (last, if last) flush among
\* kws, the flushes that hold a keyword; undetermined when there is none
FlushDecides(g, kws, last) ==
    IF kws = {} THEN g.type = "None"
    ELSE g.type = KeywordType(g.flushes[IF last THEN SetMax(kws)
                                        ELSE SetMin(kws)])

----------------------------------------------------------------------------
(* C9 *)

NoParenthesis(s) == \A i \in 1..Len(s) : s[i] \notin {"(", ")"}
NoCourseCodeInside(s) ==
    \A i \in 1..(Len(s) - 7) : ~re_match_course(SubSeq(s, i, i + 7))
NotAtomic(s) ==
    /\ s # <<>>
    /\ \E i \in 1..Len(s) : s[i] \notin Digits
    /\ ~re_match_course(s)

\* C9: for a text that after trimming is non-empty, not purely numeric and
\* not exactly a course code, parse_condition returns None when parse_groups
\* yields exactly one segment; in particular a text with no parenthesis and
\* no 4-letter-4-digit substring is returned as None.
C9_SingleSegmentIsUnparseable ==
    (pc = "parsed" /\ NotAtomic(strip(text))) =>
        /\ Len(parse_groups(strip(text)).groups) = 1 => tree = None
        /\ (NoParenthesis(text) /\ NoCourseCodeInside(text)) => tree = None

\* a phrase starting with a number, without parenthesis or course code
C9_Witness ==
    /\ pc = "parsed"
    /\ NotAtomic(strip(text))
    /\ text[1] \in Digits
    /\ NoParenthesis(text)
    /\ NoCourseCodeInside(text)
    /\ tree = None

----------------------------------------------------------------------------
(* C10 *)

\* depth of the deepest pending call
DeepestCall == SetMax({calls[i].depth : i \in 1..Len(calls)})

\* C10: every recursive parse_condition call is made on a segment strictly
\* shorter than the text being parsed, and the recursion depth, and so the
\* height of the returned tree, is at most the maximum parenthesis nesting
\* depth of the input plus one; unbalanced parentheses included.
C10_RecursionBounded ==
    /\ \A i \in 1..Len(calls) :
          calls[i].depth > 0 => Len(calls[i].condition) < Len(calls[i].parent)
    /\ calls # <<>> => DeepestCall <= Nesting(text) + 1
    /\ pc = "parsed" => Height(tree) <= Nesting(text) + 1

\* a text with unbalanced parentheses whose parse recursed two levels
C10_Witness ==
    /\ pc = "parsed"
    /\ ~Balanced(text)
    /\ Nesting(text) = 1
    /\ Height(tree) = 2

====
